---- MODULE Spec2Model ----
(***************************************************************************)
(* Batched field evaluation of nf2.evaluation.output: BaseOutput,          *)
(* CartesianOutput and SphericalOutput; and the validation metrics of      *)
(* nf2.train.callback.MetricsCallback.                                     *)
(*                                                                         *)
(* Numbers.  Coordinates are integers.  Angles are integers in degrees     *)
(* (PI == 180), so that `%` on angles is exact.  A physical quantity is a  *)
(* normalized 3-vector together with the exponents of the scale factors it *)
(* has been multiplied by and the exponents of its astropy unit, so that   *)
(* "multiplied by G_per_dB" is an exact, countable operation.              *)
(***************************************************************************)
EXTENDS Integers, Sequences, FiniteSets, TLC

\* ------------------------------------------------------------------ bounds
MaxPoints == 3      \* longest explicit coordinate list passed to load_coords
MaxBatch == 2       \* largest explicit batch_size (the default 4096 is kept too)
MaxOffsets == 2     \* how often load_spherical may run on its default range
MaxSamples == 2     \* most samples a validation epoch hands to MetricsCallback

\* ------------------------------------------------------- program constants
spatial_norm == 1
DefaultBatch == 4096
PI == 180

\* --------------------------------------------------------------- sequences
Min(a, b) == IF a < b THEN a ELSE b

RECURSIVE Product(_)
Product(s) == IF s = <<>> THEN 1 ELSE Head(s) * Product(Tail(s))

\* torch.cat / list concatenation of the per-chunk outputs, in list order
RECURSIVE Cat(_)
Cat(chunks) == IF chunks = <<>> THEN <<>> ELSE Head(chunks) \o Cat(Tail(chunks))

\* a slice that drops the last point of every chunk (off by one)
SliceShort(s, lo, hi) == SubSeq(s, lo + 1, Min(hi, Len(s)) - 1)

\* python s[lo:hi] for 0 <= lo <= hi: 0-based, half-open, clamped to len(s)
Slice(s, lo, hi) == SubSeq(s, lo + 1, Min(hi, Len(s)))

\* int(np.ceil(n / batch_size))
NumChunks(n, bs) == (n + bs - 1) \div bs

\* ------------------------------------------------------------- quantities
\* f: exponents of <<G_per_dB, m_per_ds, c, 4*pi>>;  u: exponents of <<G, m, s>>
Raw(v) == [v |-> v, f |-> <<0, 0, 0, 0>>, u |-> <<0, 0, 0>>]

\* x * self.G_per_dB: G_per_dB is state['data']['G_per_dB'] * u.G
TimesGperdB(q) == [q EXCEPT !.f[1] = @ + 1, !.u[1] = @ + 1]

\* x / self.m_per_ds: m_per_ds is a length in u.m
DivMperds(q) == [q EXCEPT !.f[2] = @ - 1, !.u[2] = @ - 1]

\* x * self.c: c is a bare float (constants.c.to_value(u.m / u.s))
TimesC(q) == [q EXCEPT !.f[3] = @ + 1]

\* x / (4 * np.pi)
DivFourPi(q) == [q EXCEPT !.f[4] = @ - 1]

\* x * u.G / u.s
TimesGPerS(q) == [q EXCEPT !.u[1] = @ + 1, !.u[3] = @ - 1]

\* a field conversion that applies the field scale twice
ToPhysicalBTwice(v) == TimesGperdB(TimesGperdB(Raw(v)))

\* b = cube * self.G_per_dB
ToPhysicalB(v) == TimesGperdB(Raw(v))

\* cube * self.G_per_dB on the whole array
ConvertB(xs) == [i \in 1..Len(xs) |-> ToPhysicalB(xs[i])]

\* j = j_cube * self.G_per_dB / self.m_per_ds * self.c / (4 * np.pi); j * u.G / u.s
ToPhysicalJ(v) == TimesGPerS(DivFourPi(TimesC(DivMperds(TimesGperdB(Raw(v))))))

\* line 66-67 on the whole array
ConvertJ(xs) == [i \in 1..Len(xs) |-> ToPhysicalJ(xs[i])]

\* ----------------------------------------------------------------- arrays
\* an array is its shape and its elements in C order; the elements are the
\* 3-vectors of the trailing axis, so Product(shape) = 3 * Len(data)
EmptyArr == [shape |-> <<>>, data |-> <<>>]

\* x.reshape(*shape): the same elements in the same order under a new shape
Reshape(a, shape) == [shape |-> shape, data |-> a.data]

\* ------------------------------------------------------- the field model
\* self.model(coord)['b'] at one point: the model maps each point on its own
ModelB(p) == <<p[2] * p[2] + p[1], p[3] * p[3] + p[2], p[1] * p[1] + p[3]>>

\* self.model(coord)['b'] on a batch
Model(xs) == [i \in 1..Len(xs) |-> ModelB(xs[i])]

\* calculate_current(b_batch, coord) at one point: the curl of ModelB
ModelJ(p) == <<0 - 2 * p[3], 0 - 2 * p[1], 0 - 2 * p[2]>>

\* calculate_current(b_batch, coord) on a batch
calculate_current(xs) == [i \in 1..Len(xs) |-> ModelJ(xs[i])]

\* coords / self.spatial_norm
Normalize(p) == [i \in 1..3 |-> p[i] \div spatial_norm]

\* coords / self.spatial_norm on the whole array
NormalizeAll(xs) == [i \in 1..Len(xs) |-> Normalize(xs[i])]

\* gradient mode that looks at compute_currents alone
GradModeCurrentsOnly(cc, rg) == cc

\* line 70: gradients are tracked iff compute_currents or self._requires_grad
GradMode(cc, rg) == cc \/ rg

\* a zero_grad that leaves the accumulators as they are
KeepGrad(acc) == acc

\* self.model.zero_grad(): the accumulators hold nothing afterwards
ZeroGrad(acc) == FALSE

\* ------------------------------------------------- coordinate transforms
\* sin and cos at the multiples of 90 degrees
Sin90(a) == CASE a % 360 = 0 -> 0 [] a % 360 = 90 -> 1
              [] a % 360 = 180 -> 0 [] a % 360 = 270 -> -1

Cos90(a) == CASE a % 360 = 0 -> 1 [] a % 360 = 90 -> 0
              [] a % 360 = 180 -> -1 [] a % 360 = 270 -> 0

\* spherical_to_cartesian(<<r, theta, phi>>), theta the polar angle from +z;
\* exact for theta and phi at multiples of 90 degrees
spherical_to_cartesian(s) ==
    <<s[1] * Sin90(s[2]) * Cos90(s[3]), s[1] * Sin90(s[2]) * Sin90(s[3]), s[1] * Cos90(s[2])>>

\* spherical_to_cartesian on an array of points
SphericalToCartesian(xs) == [i \in 1..Len(xs) |-> spherical_to_cartesian(xs[i])]

\* the polar angle arctan2(sqrt(x^2 + y^2), z) of a point of {-1,0,1}^3, in
\* degrees (arctan(sqrt 2) = 54.74 and its supplement are kept as 55 and 125;
\* every window bound below is a multiple of 45, so each comparison is exact)
PolarAngle(p) ==
    LET rho2 == p[1] * p[1] + p[2] * p[2]
    IN  CASE p[3] = 1 -> (CASE rho2 = 0 -> 0 [] rho2 = 1 -> 45 [] rho2 = 2 -> 55)
          [] p[3] = 0 -> (IF rho2 = 0 THEN 0 ELSE 90)
          [] p[3] = -1 -> (CASE rho2 = 0 -> 180 [] rho2 = 1 -> 135 [] rho2 = 2 -> 125)

\* the azimuth arctan2(y, x) of a point of {-1,0,1}^3, wrapped to [0, 360)
Azimuth(p) ==
    CASE p[1] = 1 /\ p[2] = 0 -> 0 [] p[1] = 1 /\ p[2] = 1 -> 45
      [] p[1] = 0 /\ p[2] = 1 -> 90 [] p[1] = -1 /\ p[2] = 1 -> 135
      [] p[1] = -1 /\ p[2] = 0 -> 180 [] p[1] = -1 /\ p[2] = -1 -> 225
      [] p[1] = 0 /\ p[2] = -1 -> 270 [] p[1] = 1 /\ p[2] = -1 -> 315
      [] p[1] = 0 /\ p[2] = 0 -> 0

\* cartesian_to_spherical(p) = <<r, theta, phi>>; the radius is kept as its
\* square r^2 = x^2 + y^2 + z^2 and compared with a bound a >= 0 through a^2
cartesian_to_spherical(p) ==
    <<p[1] * p[1] + p[2] * p[2] + p[3] * p[3], PolarAngle(p), Azimuth(p)>>

\* cartesian_to_spherical on an array of points
CartesianToSpherical(xs) == [i \in 1..Len(xs) |-> cartesian_to_spherical(xs[i])]

\* vector_cartesian_to_spherical(b, spherical_coords) at one cell: the same
\* vector, its components now taken in the local (r, theta, phi) basis at s
vector_cartesian_to_spherical(q, s) ==
    [v |-> q.v, f |-> q.f, u |-> q.u, basis |-> <<s[2], s[3]>>]

\* ---------------------------------------------------------------- lattices
\* the sample count of an axis as round-half-even((hi - lo) * p2 / 2)
RoundSamples(lo, hi, p2) ==
    LET n == (hi - lo) * p2
        q == n \div 2
    IN  IF n % 2 = 0 THEN q ELSE IF q % 2 = 0 THEN q ELSE q + 1

\* int((hi - lo) * p) for hi >= lo and a resolution p = p2 / 2 >= 0:
\* int() truncates towards zero
AxisSamples(lo, hi, p2) == ((hi - lo) * p2) \div 2

\* np.linspace(lo, hi, n): n = 0 is empty, n = 1 is [lo]; used where the
\* step (hi - lo) / (n - 1) is an integer
Linspace(lo, hi, n) ==
    [i \in 1..n |-> IF n = 1 THEN lo ELSE lo + ((i - 1) * (hi - lo)) \div (n - 1)]

\* the samples of np.linspace(lo, hi, n) are integers
Integral(lo, hi, n) == IF n <= 1 THEN TRUE ELSE (hi - lo) % (n - 1) = 0

\* np.stack(np.meshgrid(xs, ys, zs, indexing='ij'), -1).reshape(-1, 3):
\* C order, the first axis slowest
Lattice(xs, ys, zs) ==
    [i \in 1..(Len(xs) * Len(ys) * Len(zs)) |->
        <<xs[((i - 1) \div (Len(ys) * Len(zs))) + 1],
          ys[(((i - 1) \div Len(zs)) % Len(ys)) + 1],
          zs[((i - 1) % Len(zs)) + 1]>>]

\* ------------------------------------------------------------ coverage mask
\* lines 160-170 at one lattice point with spherical coordinates s, for the
\* window rr (radius), lat, lon: the bounds are wrapped like the samples
Condition(s, rr, lat, lon) ==
    LET lat_coord == s[2] % PI
        lon_coord == s[3] % (2 * PI)
        min_lat == lat[1] % PI
        max_lat == lat[2] % PI
        min_lon == lon[1] % (2 * PI)
        max_lon == lon[2] % (2 * PI)
    IN  /\ s[1] >= rr[1] * rr[1] /\ s[1] < rr[2] * rr[2]
        /\ lat_coord >= min_lat /\ lat_coord < max_lat
        /\ lon_coord >= min_lon /\ lon_coord < max_lon

\* the number of True cells among the first i cells
RECURSIVE Rank(_, _)
Rank(cond, i) == IF i = 0 THEN 0 ELSE Rank(cond, i - 1) + (IF cond[i] THEN 1 ELSE 0)

\* coords[condition]: the cells where condition is True, in C order
RECURSIVE MaskSelect(_, _)
MaskSelect(xs, cond) ==
    IF xs = <<>> THEN <<>>
    ELSE (IF Head(cond) THEN <<Head(xs)>> ELSE <<>>) \o MaskSelect(Tail(xs), Tail(cond))

\* np.zeros(cube_shape + (3,)) * unit
Zeros(n, unit) == [i \in 1..n |-> [v |-> <<0, 0, 0>>, f |-> <<0, 0, 0, 0>>, u |-> unit]]

\* a scatter that writes the values into the first cells, whatever the mask
ScatterFront(dense, cond, sub) ==
    [i \in 1..Len(dense) |-> IF i <= Len(sub) THEN sub[i] ELSE dense[i]]

\* b[condition] = sub_b: the i-th True cell takes the i-th value
Scatter(dense, cond, sub) ==
    [i \in 1..Len(dense) |-> IF cond[i] THEN sub[Rank(cond, i)] ELSE dense[i]]

\* ------------------------------------------------------------------- inputs
\* the points explicit coordinate lists are drawn from
PointPool == {<<1, 0, 0>>, <<0, 1, -1>>}

\* the grid shapes S of a coordinate array of n points (its shape is S + (3,))
ShapesOf(n) ==
    {<<n>>} \cup {<<a, n \div a>> : a \in {d \in 2..n : n % d = 0 /\ d < n}}
            \cup (IF n = 1 THEN {<<>>} ELSE {})

BatchSizes == (1..MaxBatch) \cup {DefaultBatch}

\* the batch_size a sampler passes on through **kwargs
SamplerBatches == {MaxBatch, DefaultBatch}

\* state['data']['coord_range'] of a cartesian checkpoint: one <<min, max>> per axis
CoordRanges == {<<<<-1, 1>>, <<-1, 1>>, <<0, 1>>>>, <<<<0, 1>>, <<0, 0>>, <<-1, 1>>>>}

\* height_range / self.Mm_per_ds, or <<>> for None
HeightRanges == {<<>>, <<0, 0>>, <<-1, 1>>}

\* points per unit length, in halves: 1, 1.5 and 2
Resolutions == {2, 3, 4}

\* the bounding box line 149-151 takes from spherical_to_cartesian(spherical_bounds)
Boxes == {<<<<-1, 1>>, <<-1, 1>>, <<-1, 1>>>>, <<<<0, 1>>, <<0, 1>>, <<0, 1>>>>,
          <<<<0, 1>>, <<0, 0>>, <<-1, 1>>>>}

RadiusRanges == {<<0, 2>>, <<1, 2>>}

\* latitude_range of load, as a polar angle; <<0, PI>> is its default
LatRanges == {<<0, PI>>, <<0, 90>>, <<45, 135>>}

\* longitude_range: a Quantity, or the default, which is the plain tuple
\* (0, 2 * np.pi) and has no to_value
LonRanges == {[quantity |-> FALSE, range |-> <<0, 2 * PI>>],
              [quantity |-> TRUE, range |-> <<0, 2 * PI>>],
              [quantity |-> TRUE, range |-> <<0, PI>>],
              [quantity |-> TRUE, range |-> <<90, 270>>]}

\* the latitude ranges a caller of load_spherical passes as its own object
CallerLatRanges == {<<-90, 90>>, <<-90, 0>>}

\* sampling of load_spherical (the default [100, 180, 360] scaled down)
Samplings == {<<1, 2, 1>>, <<2, 3, 2>>, <<1, 3, 3>>}

\* SkyCoord points <<radius, lat, lon>> in the Carrington frame
SkyPool == {<<1, 0, 0>>, <<1, 90, 0>>, <<2, -90, 90>>}

\* the latitude range the signature of load_spherical declares as default
DeclaredDefaultLatitude == <<0 - PI \div 2, PI \div 2>>

\* every angle of s is a multiple of 90 degrees (where Sin90 and Cos90 are exact)
Mult90(s) == \A i \in 1..Len(s) : s[i] % 90 = 0

\* ------------------------------------------------- callback.py: the metrics
\* A validation sample is a tuple of integer components (three of a vector,
\* one of a scalar) over a positive common denominator, so that a scale
\* factor multiplies and a length scale divides exactly.
Vec(n) == [n |-> n, d |-> 1]

\* lines 271-274: tensor * scalar and tensor / scalar
Times(a, s) == [i \in 1..Len(a) |-> [n |-> [c \in 1..Len(a[i].n) |-> a[i].n[c] * s],
                                     d |-> a[i].d]]

Over(a, s) == [i \in 1..Len(a) |-> [n |-> a[i].n, d |-> a[i].d * s]]

\* The floating-point values of lines 276-290 are all non-negative; each is
\* kept as its IEEE-754 class: zero, pos (finite and positive), inf or nan.
Float == {"zero", "pos", "inf", "nan"}

FMul(x, y) ==
    IF x = "nan" \/ y = "nan" THEN "nan"
    ELSE IF {x, y} = {"zero", "inf"} THEN "nan"
    ELSE IF x = "zero" \/ y = "zero" THEN "zero"
    ELSE IF x = "inf" \/ y = "inf" THEN "inf"
    ELSE "pos"

\* 0/0 and inf/inf are nan; a positive value over zero is inf
FDiv(x, y) ==
    IF x = "nan" \/ y = "nan" THEN "nan"
    ELSE IF x = y /\ x \in {"zero", "inf"} THEN "nan"
    ELSE IF y = "zero" THEN "inf"
    ELSE IF x = "zero" \/ y = "inf" THEN "zero"
    ELSE x

FAdd(x, y) ==
    IF x = "nan" \/ y = "nan" THEN "nan"
    ELSE IF x = "inf" \/ y = "inf" THEN "inf"
    ELSE IF x = "pos" \/ y = "pos" THEN "pos"
    ELSE "zero"

\* x + 1e-7
AddEps(x) == FAdd(x, "pos")

RECURSIVE FSum(_)
FSum(s) == IF s = <<>> THEN "zero" ELSE FAdd(Head(s), FSum(Tail(s)))

\* .mean(): the sum over the number of elements, 0/0 on an empty tensor
FMean(s) == FDiv(FSum(s), IF s = <<>> THEN "zero" ELSE "pos")

\* the class of a non-negative integer, and of its square root
ClassOf(n) == IF n = 0 THEN "zero" ELSE "pos"

\* torch.norm(a, dim=-1) and a.pow(2).sum(-1).pow(0.5)
norm(a) == [i \in 1..Len(a) |->
               ClassOf(a[i].n[1] * a[i].n[1] + a[i].n[2] * a[i].n[2] + a[i].n[3] * a[i].n[3])]

\* torch.cross(p, q, dim=-1)
cross(p, q) == [i \in 1..Len(p) |->
                   [n |-> <<p[i].n[2] * q[i].n[3] - p[i].n[3] * q[i].n[2],
                            p[i].n[3] * q[i].n[1] - p[i].n[1] * q[i].n[3],
                            p[i].n[1] * q[i].n[2] - p[i].n[2] * q[i].n[1]>>,
                    d |-> p[i].d * q[i].d]]

\* line 280: torch.clip(angle, -1 + 1e-7, 1 - 1e-7) keeps nan and brings
\* anything above the upper limit down to it
clip(x) == IF x = "inf" THEN "pos" ELSE x

\* lines 281-282: arcsin and rad2deg are zero at zero, positive on a
\* positive argument within the clip limits, nan on nan
arcsin(x) == IF x = "inf" THEN "nan" ELSE x

rad2deg(x) == FMul(x, "pos")

\* line 277
sigma(b, j) ==
    [i \in 1..Len(b) |-> FDiv(norm(cross(j, b))[i], FMul(norm(b)[i], norm(j)[i]))]

\* line 278
j_weight(j) == norm(j)

\* line 279
angle(b, j) ==
    FDiv(FSum([i \in 1..Len(b) |-> FMul(sigma(b, j)[i], j_weight(j)[i])]), FSum(j_weight(j)))

\* lines 280-282
theta_J(b, j) == rad2deg(arcsin(clip(angle(b, j))))

\* line 284
sigma_J(b, j) ==
    FDiv(FSum([i \in 1..Len(b) |-> FDiv(norm(cross(j, b))[i], AddEps(norm(b)[i]))]),
         AddEps(FSum(norm(j))))

\* line 286
b_norm(b) == [i \in 1..Len(b) |-> AddEps(norm(b)[i])]

\* line 287, on divergence samples that are not negative
div_loss(div, b) == FMean([i \in 1..Len(b) |-> FDiv(ClassOf(div[i].n[1]), b_norm(b)[i])])

\* lines 289-290
ff_loss(b, j) == FMean([i \in 1..Len(b) |-> FDiv(norm(cross(j, b))[i], b_norm(b)[i])])

\* the intermediate values of lines 276-290, for a look at the undefined ones
Intermediates(b, j) ==
    {sigma(b, j)[i] : i \in 1..Len(b)} \cup {angle(b, j), sigma_J(b, j), ff_loss(b, j)}

\* ------------------------------------------------- the callback's inputs
BPool == {<<0, 0, 0>>, <<1, 0, 0>>, <<0, 2, 0>>}

JPool == {<<0, 0, 0>>, <<2, 0, 0>>, <<0, 0, 1>>}

DivPool == {0, 1}

ScalePool == {1, 2}

SamplesOf(pool, n) == [1..n -> {Vec(p) : p \in pool}]

\* what the validation step leaves under the callback's key: n samples of
\* b, j and div each
ValidationOutputs ==
    UNION {{[b |-> b, j |-> j, div |-> div] :
               b \in SamplesOf(BPool, n), j \in SamplesOf(JPool, n),
               div \in SamplesOf({<<p>> : p \in DivPool}, n)} : n \in 0..MaxSamples}

Callbacks == {[gauss_per_dB |-> g, Mm_per_ds |-> m] : g \in ScalePool, m \in ScalePool}

\* ------------------------------------------------------------------ state
VARIABLES
    cls,            \* the class of the output object
    state,          \* self.state['data']: type, coord_range, radius_range
    requires_grad,  \* self._requires_grad
    grad_acc,       \* the model's gradient accumulators hold something
    grad_enabled,   \* torch's gradient mode
    default_latitude_range,  \* the default object of load_spherical's latitude_range
    pc,             \* idle, loop, model, current, collect, returned, raised
    op,             \* the public operation in progress
    req,            \* the sampler's locals
    coords,         \* _load: coords after reshape((-1, 3))
    coords_shape,   \* _load: coords_shape
    batch_size,
    compute_currents,
    k,              \* _load: the chunk index
    coord,          \* _load: the chunk
    b_batch,        \* _load: result['b']
    cube,
    j_cube,
    dispatched,     \* the calls of self.model made by this request, in order
    model_out,      \* what load_coords returned
    result,         \* what the public operation returned
    error,          \* the exception that reached the caller
    callback,       \* the MetricsCallback's gauss_per_dB and Mm_per_ds
    validation_outputs,  \* pl_module.validation_outputs, as the sequence of
                    \* what it holds under validation_dataset_key
    hook,           \* none, pending, done: the validation epoch's end hook
    logged          \* what the hook handed to wandb.log

vars == <<cls, state, requires_grad, grad_acc, grad_enabled, default_latitude_range,
          pc, op, req, coords, coords_shape, batch_size, compute_currents, k, coord,
          b_batch, cube, j_cube, dispatched, model_out, result, error,
          callback, validation_outputs, hook, logged>>

object == <<cls, state, requires_grad>>

metrics == <<callback, validation_outputs, hook, logged>>

NoCallback == [gauss_per_dB |-> 0, Mm_per_ds |-> 0]

NoOut == [keys |-> {}, B |-> EmptyArr, J |-> EmptyArr, B_rtp |-> EmptyArr]

NoReq == [dense |-> <<>>, cube_shape |-> <<>>, sph |-> <<>>, condition |-> <<>>,
          rr |-> <<0, 0>>, lat |-> <<0, 0>>, lon |-> <<0, 0>>, axes |-> <<>>,
          lat_arg |-> "none", lat_before |-> <<0, 0>>, lat_after |-> <<0, 0>>]

\* state['data'] of the checkpoint files: cartesian ones with their
\* coord_range, a spherical one with its radius_range
SphericalCheckpoint == [type |-> "spherical", coord_range |-> <<>>, radius_range |-> <<1, 2>>]

Checkpoints ==
    {[type |-> "cartesian", coord_range |-> cr, radius_range |-> <<0, 0>>] : cr \in CoordRanges}
        \cup {SphericalCheckpoint}

\* a checkpoint on disk and no output object yet
Init ==
    /\ cls = "none"
    /\ state \in Checkpoints
    /\ requires_grad \in BOOLEAN
    /\ grad_acc = FALSE
    /\ grad_enabled = TRUE
    /\ default_latitude_range = DeclaredDefaultLatitude
    /\ pc = "idle" /\ op = "none" /\ req = NoReq
    /\ coords = <<>> /\ coords_shape = <<>> /\ batch_size = DefaultBatch
    /\ compute_currents = FALSE /\ k = 0 /\ coord = <<>> /\ b_batch = <<>>
    /\ cube = <<>> /\ j_cube = <<>> /\ dispatched = <<>>
    /\ model_out = NoOut /\ result = NoOut /\ error = "none"
    /\ callback = NoCallback
    /\ validation_outputs = <<>> /\ hook = "none" /\ logged = <<>>

\* ------------------------------------------------------------ construction
\* the assertion skipped
RequiresNothing(data) == TRUE

\* line 116: assert self.state['data']['type'] == 'spherical'
RequiresSpherical(data) == data.type = "spherical"

\* lines 79-87: CartesianOutput(checkpoint) on a cartesian checkpoint (its
\* own assertion, line 81, is commented out)
CartesianOutputInit ==
    /\ pc = "idle" /\ cls = "none"
    /\ state.type = "cartesian"
    /\ cls' = "CartesianOutput"
    /\ op' = "CartesianOutput.__init__"
    /\ UNCHANGED <<state, requires_grad, metrics, grad_acc, grad_enabled,
                   default_latitude_range, pc, req, coords, coords_shape, batch_size,
                   compute_currents, k, coord, b_batch, cube, j_cube, dispatched,
                   model_out, result, error>>

\* lines 114-118: SphericalOutput(checkpoint) on any checkpoint; the base
\* class loads it, the assertion raises on a domain type other than
\* 'spherical' and no object comes into being
SphericalOutputInit ==
    /\ pc = "idle" /\ cls = "none"
    /\ op' = "SphericalOutput.__init__"
    /\ IF RequiresSpherical(state)
       THEN /\ cls' = "SphericalOutput"
            /\ UNCHANGED <<pc, error>>
       ELSE /\ pc' = "raised" /\ error' = "AssertionError"
            /\ UNCHANGED cls
    /\ UNCHANGED <<state, requires_grad, metrics, grad_acc, grad_enabled,
                   default_latitude_range, req, coords, coords_shape, batch_size,
                   compute_currents, k, coord, b_batch, cube, j_cube, dispatched,
                   model_out, result>>

\* -------------------------------------------------------------- load_coords
\* lines 35-44 and 70-74: the entry of load_coords on an array of the given
\* shape whose points, in C order, are flat; _load runs in the caller's
\* gradient mode (torch's default, enabled) or inside torch.no_grad()
EnterLoadCoords(flat, shape, bs, cc) ==
    /\ coords' = NormalizeAll(flat)
    /\ coords_shape' = shape \o <<3>>
    /\ batch_size' = bs
    /\ compute_currents' = cc
    /\ grad_enabled' = IF GradMode(cc, requires_grad) THEN grad_enabled ELSE FALSE
    /\ k' = 0 /\ coord' = <<>> /\ b_batch' = <<>>
    /\ cube' = <<>> /\ j_cube' = <<>> /\ dispatched' = <<>>
    /\ model_out' = NoOut /\ result' = NoOut /\ error' = "none"
    /\ pc' = "loop"

\* an exception raised by a sampler before it reaches load_coords
RaiseEarly(e) ==
    /\ pc' = "raised" /\ error' = e
    /\ model_out' = NoOut /\ result' = NoOut
    /\ UNCHANGED <<grad_enabled, coords, coords_shape, batch_size, compute_currents,
                   k, coord, b_batch, cube, j_cube, dispatched>>

\* load_coords(coords, batch_size, compute_currents) called by the user
CallLoadCoords ==
    /\ pc = "idle" /\ cls # "none"
    /\ \E n \in 0..MaxPoints : \E c \in [1..n -> PointPool] : \E shape \in ShapesOf(n) :
       \E bs \in BatchSizes : \E cc \in BOOLEAN :
          EnterLoadCoords(c, shape, bs, cc)
    /\ op' = "load_coords" /\ req' = NoReq
    /\ UNCHANGED <<object, metrics, grad_acc, default_latitude_range>>

\* lines 47-50: zero_grad, slice the chunk, move it, set requires_grad
ZeroGradStep ==
    /\ pc = "loop" /\ k < NumChunks(Len(coords), batch_size)
    /\ grad_acc' = ZeroGrad(grad_acc)
    /\ coord' = Slice(coords, k * batch_size, (k + 1) * batch_size)
    /\ pc' = "model"
    /\ UNCHANGED <<object, metrics, grad_enabled, default_latitude_range, op, req, coords,
                   coords_shape, batch_size, compute_currents, k, b_batch, cube, j_cube,
                   dispatched, model_out, result, error>>

Invocation(exc) ==
    [k |-> k, coord |-> coord, tracked |-> grad_enabled, acc_clean |-> ~grad_acc,
     exc |-> exc]

\* lines 51-52: the model returns; a forward pass with gradients tracked may
\* leave gradient state behind
ModelReturns ==
    /\ pc = "model"
    /\ b_batch' = Model(coord)
    /\ dispatched' = Append(dispatched, Invocation("none"))
    /\ grad_acc' \in (IF grad_enabled THEN BOOLEAN ELSE {grad_acc})
    /\ pc' = IF compute_currents THEN "current" ELSE "collect"
    /\ UNCHANGED <<object, metrics, grad_enabled, default_latitude_range, op, req, coords,
                   coords_shape, batch_size, compute_currents, k, coord, cube, j_cube,
                   model_out, result, error>>

\* a failure of chunk k that is swallowed: the loop goes on with chunk k + 1
ModelRaisesSwallowed ==
    /\ pc = "model"
    /\ dispatched' = Append(dispatched, Invocation("ModelError"))
    /\ k' = k + 1
    /\ pc' = "loop"
    /\ UNCHANGED <<object, metrics, grad_acc, grad_enabled, default_latitude_range, op, req, coords,
                   coords_shape, batch_size, compute_currents, coord, b_batch, cube,
                   j_cube, model_out, result, error>>

\* line 51: the model raises; nothing in _load or its callers catches it, and
\* leaving the no_grad block restores the gradient mode
ModelRaises ==
    /\ pc = "model"
    /\ dispatched' = Append(dispatched, Invocation("ModelError"))
    /\ error' = "ModelError"
    /\ grad_enabled' = TRUE
    /\ pc' = "raised"
    /\ UNCHANGED <<object, metrics, grad_acc, default_latitude_range, op, req, coords, coords_shape,
                   batch_size, compute_currents, k, coord, b_batch, cube, j_cube,
                   model_out, result>>

\* lines 54-55: calculate_current returns and its chunk joins j_cube
CurrentReturns ==
    /\ pc = "current"
    /\ j_cube' = Append(j_cube, calculate_current(coord))
    /\ grad_acc' \in BOOLEAN
    /\ pc' = "collect"
    /\ UNCHANGED <<object, metrics, grad_enabled, default_latitude_range, op, req, coords,
                   coords_shape, batch_size, compute_currents, k, coord, b_batch, cube,
                   dispatched, model_out, result, error>>

\* line 54: calculate_current raises
CurrentRaises ==
    /\ pc = "current"
    /\ dispatched' = [dispatched EXCEPT ![Len(dispatched)].exc = "CurrentError"]
    /\ error' = "CurrentError"
    /\ grad_enabled' = TRUE
    /\ pc' = "raised"
    /\ UNCHANGED <<object, metrics, grad_acc, default_latitude_range, op, req, coords, coords_shape,
                   batch_size, compute_currents, k, coord, b_batch, cube, j_cube,
                   model_out, result>>

\* line 56: the chunk's field joins cube and the loop moves on
Collect ==
    /\ pc = "collect"
    /\ cube' = Append(cube, b_batch)
    /\ k' = k + 1
    /\ pc' = "loop"
    /\ UNCHANGED <<object, metrics, grad_acc, grad_enabled, default_latitude_range, op, req, coords,
                   coords_shape, batch_size, compute_currents, coord, b_batch, j_cube,
                   dispatched, model_out, result, error>>

\* lines 58-68: what _load returns for a non-empty cube: concatenate in chunk
\* order, reshape to coords_shape, convert
ModelOut ==
    LET b == ConvertB(Reshape([shape |-> <<>>, data |-> Cat(cube)], coords_shape).data)
        j == ConvertJ(Reshape([shape |-> <<>>, data |-> Cat(j_cube)], coords_shape).data)
    IN  [keys |-> IF compute_currents THEN {"B", "J"} ELSE {"B"},
         B |-> [shape |-> coords_shape, data |-> b],
         J |-> IF compute_currents THEN [shape |-> coords_shape, data |-> j] ELSE EmptyArr,
         B_rtp |-> EmptyArr]

\* lines 106-109: load_cube reshapes B and J to cube_shape + (3,)
CubeResult(out) ==
    [keys |-> {"B", "J", "coords", "Mm_per_pixel"},
     B |-> Reshape(out.B, req.cube_shape \o <<3>>),
     J |-> Reshape(out.J, req.cube_shape \o <<3>>),
     B_rtp |-> EmptyArr]

\* line 135: load_spherical returns B and the coordinates, and drops J
ShellResult(out) ==
    [keys |-> {"B", "coords"}, B |-> out.B, J |-> EmptyArr, B_rtp |-> EmptyArr]

\* lines 176-185: load scatters B and J into zero arrays of the dense shape
\* and rotates the dense B
MaskedResult(out) ==
    LET n == Len(req.dense)
        b == Scatter(Zeros(n, out.B.data[1].u), req.condition, out.B.data)
        j == Scatter(Zeros(n, out.J.data[1].u), req.condition, out.J.data)
    IN  [keys |-> {"B", "B_rtp", "J", "coords", "spherical_coords"},
         B |-> [shape |-> req.cube_shape \o <<3>>, data |-> b],
         J |-> [shape |-> req.cube_shape \o <<3>>, data |-> j],
         B_rtp |-> [shape |-> req.cube_shape \o <<3>>,
                    data |-> [i \in 1..n |-> vector_cartesian_to_spherical(b[i], req.sph[i])]]]

PublicResult(out) ==
    CASE op = "load_cube" -> CubeResult(out)
      [] op = "load_spherical" -> ShellResult(out)
      [] op = "load" -> MaskedResult(out)
      [] OTHER -> out

\* lines 58-68 and the caller's lines after load_coords: torch.cat of an empty
\* list raises RuntimeError (no chunk was evaluated); otherwise the request returns
Finish ==
    /\ pc = "loop" /\ k = NumChunks(Len(coords), batch_size)
    /\ IF cube = <<>>
       THEN /\ pc' = "raised" /\ error' = "RuntimeError"
            /\ UNCHANGED <<model_out, result>>
       ELSE /\ pc' = "returned"
            /\ model_out' = ModelOut
            /\ result' = PublicResult(ModelOut)
            /\ UNCHANGED error
    /\ grad_enabled' = TRUE
    /\ UNCHANGED <<object, metrics, grad_acc, default_latitude_range, op, req, coords, coords_shape,
                   batch_size, compute_currents, k, coord, b_batch, cube, j_cube,
                   dispatched>>

\* the caller has the result or the exception; the object is idle again
Return ==
    /\ pc \in {"returned", "raised"}
    /\ pc' = "idle" /\ op' = "none" /\ req' = NoReq
    /\ coords' = <<>> /\ coords_shape' = <<>> /\ batch_size' = DefaultBatch
    /\ compute_currents' = FALSE /\ k' = 0 /\ coord' = <<>> /\ b_batch' = <<>>
    /\ cube' = <<>> /\ j_cube' = <<>> /\ dispatched' = <<>>
    /\ model_out' = NoOut /\ result' = NoOut /\ error' = "none"
    /\ UNCHANGED <<object, metrics, grad_acc, grad_enabled, default_latitude_range>>

\* ----------------------------------------------------------------- samplers
\* lines 91-104: load_cube builds the lattice of the box and evaluates all of it
CallLoadCube ==
    /\ pc = "idle" /\ cls = "CartesianOutput"
    /\ \E hr \in HeightRanges : \E p2 \in Resolutions : \E bs \in SamplerBatches :
          LET xr == state.coord_range[1]
              yr == state.coord_range[2]
              zr == IF hr = <<>> THEN state.coord_range[3] ELSE hr
              nx == AxisSamples(xr[1], xr[2], p2)
              ny == AxisSamples(yr[1], yr[2], p2)
              nz == AxisSamples(zr[1], zr[2], p2)
              dense == Lattice(Linspace(xr[1], xr[2], nx), Linspace(yr[1], yr[2], ny),
                               Linspace(zr[1], zr[2], nz))
          IN  /\ Integral(xr[1], xr[2], nx) /\ Integral(yr[1], yr[2], ny)
              /\ Integral(zr[1], zr[2], nz)
              /\ req' = [NoReq EXCEPT !.dense = dense, !.cube_shape = <<nx, ny, nz>>,
                           !.axes = <<[lo |-> xr[1], hi |-> xr[2], p2 |-> p2, n |-> nx],
                                      [lo |-> yr[1], hi |-> yr[2], p2 |-> p2, n |-> ny],
                                      [lo |-> zr[1], hi |-> zr[2], p2 |-> p2, n |-> nz]>>]
              /\ EnterLoadCoords(dense, <<Len(dense)>>, bs, TRUE)
    /\ op' = "load_cube"
    /\ UNCHANGED <<object, metrics, grad_acc, default_latitude_range>>

\* lines 142-174: load builds the dense lattice of the window's bounding box,
\* masks it and evaluates the masked-in points
CallLoad ==
    /\ pc = "idle" /\ cls = "SphericalOutput"
    /\ \E rr \in RadiusRanges \cup {<<>>} : \E lat \in LatRanges : \E lon \in LonRanges :
       \E box \in Boxes : \E p2 \in Resolutions : \E bs \in SamplerBatches :
          LET radius_range == IF rr = <<>> THEN state.radius_range ELSE rr
              nx == AxisSamples(box[1][1], box[1][2], p2)
              ny == AxisSamples(box[2][1], box[2][2], p2)
              nz == AxisSamples(box[3][1], box[3][2], p2)
              axes == <<[lo |-> box[1][1], hi |-> box[1][2], p2 |-> p2, n |-> nx],
                        [lo |-> box[2][1], hi |-> box[2][2], p2 |-> p2, n |-> ny],
                        [lo |-> box[3][1], hi |-> box[3][2], p2 |-> p2, n |-> nz]>>
          IN  IF ~lon.quantity
              THEN \* line 146: a tuple of floats has no to_value
                   /\ req' = [NoReq EXCEPT !.rr = radius_range, !.lat = lat, !.lon = lon.range]
                   /\ RaiseEarly("AttributeError")
              ELSE /\ Integral(box[1][1], box[1][2], nx) /\ Integral(box[2][1], box[2][2], ny)
                   /\ Integral(box[3][1], box[3][2], nz)
                   /\ \E dense \in {Lattice(Linspace(box[1][1], box[1][2], nx),
                                            Linspace(box[2][1], box[2][2], ny),
                                            Linspace(box[3][1], box[3][2], nz))} :
                      \E sph \in {CartesianToSpherical(dense)} :
                      \E condition \in {[i \in 1..Len(dense) |->
                                           Condition(sph[i], radius_range, lat, lon.range)]} :
                      \E sub_coords \in {MaskSelect(dense, condition)} :
                         /\ req' = [NoReq EXCEPT !.dense = dense,
                                      !.cube_shape = <<nx, ny, nz>>,
                                      !.sph = sph, !.condition = condition,
                                      !.rr = radius_range, !.lat = lat, !.lon = lon.range,
                                      !.axes = axes]
                         /\ EnterLoadCoords(sub_coords, <<Len(sub_coords)>>, bs, TRUE)
    /\ op' = "load"
    /\ UNCHANGED <<object, metrics, grad_acc, default_latitude_range>>

\* lines 125-134: load_spherical shifts latitude_range in place (line 126, +=
\* on the Quantity it was handed: the caller's object, or the one default
\* object made when the function was defined), builds the shell lattice and
\* evaluates it; the default longitude_range is a plain tuple and fails at
\* line 130, after the shift
CallLoadSpherical ==
    /\ pc = "idle" /\ cls = "SphericalOutput"
    /\ \E rr \in RadiusRanges \cup {<<>>} : \E lat_arg \in {"default", "caller"} :
       \E own \in CallerLatRanges : \E lon \in LonRanges : \E sampling \in Samplings :
       \E bs \in SamplerBatches :
          LET radius_range == IF rr = <<>> THEN state.radius_range ELSE rr
              before == IF lat_arg = "default" THEN default_latitude_range ELSE own
              latitude_range == <<before[1] + PI \div 2, before[2] + PI \div 2>>
              rs == Linspace(radius_range[1], radius_range[2], sampling[1])
              lats == Linspace(latitude_range[1], latitude_range[2], sampling[2])
              lons == Linspace(lon.range[1], lon.range[2], sampling[3])
              spherical_coords == Lattice(rs, lats, lons)
              cartesian_coords == SphericalToCartesian(spherical_coords)
              locals == [NoReq EXCEPT !.rr = radius_range, !.lat = latitude_range,
                           !.lon = lon.range, !.lat_arg = lat_arg,
                           !.lat_before = before, !.lat_after = latitude_range]
          IN  /\ lat_arg = "default" => before[1] < 90 * MaxOffsets - 90
              /\ default_latitude_range' =
                    IF lat_arg = "default" THEN latitude_range ELSE default_latitude_range
              /\ IF ~lon.quantity
                 THEN /\ req' = locals
                      /\ RaiseEarly("AttributeError")
                 ELSE /\ Integral(radius_range[1], radius_range[2], sampling[1])
                      /\ Integral(latitude_range[1], latitude_range[2], sampling[2])
                      /\ Integral(lon.range[1], lon.range[2], sampling[3])
                      /\ Mult90(lats) /\ Mult90(lons)
                      /\ req' = [locals EXCEPT !.dense = cartesian_coords,
                                   !.cube_shape = sampling, !.sph = spherical_coords]
                      /\ EnterLoadCoords(cartesian_coords, sampling, bs, TRUE)
    /\ op' = "load_spherical"
    /\ UNCHANGED <<object, metrics, grad_acc>>

\* lines 187-202: load_spherical_coords turns SkyCoord points into polar
\* angle pi / 2 + lat, then cartesian points, and evaluates them
CallLoadSphericalCoords ==
    /\ pc = "idle" /\ cls = "SphericalOutput"
    /\ \E n \in 1..2 : \E sky \in [1..n -> SkyPool] :
          LET spherical_coords == [i \in 1..n |->
                                      <<sky[i][1], PI \div 2 + sky[i][2], sky[i][3]>>]
              cartesian_coords == SphericalToCartesian(spherical_coords)
          IN  /\ req' = [NoReq EXCEPT !.dense = cartesian_coords, !.sph = spherical_coords]
              /\ EnterLoadCoords(cartesian_coords, <<n>>, DefaultBatch, FALSE)
    /\ op' = "load_spherical_coords"
    /\ UNCHANGED <<object, metrics, grad_acc, default_latitude_range>>

\* ------------------------------------------------------------ specification
Next ==
    \/ CartesianOutputInit
    \/ SphericalOutputInit
    \/ CallLoadCoords
    \/ CallLoadCube
    \/ CallLoadSpherical
    \/ CallLoad
    \/ CallLoadSphericalCoords
    \/ ZeroGradStep
    \/ ModelReturns
    \/ ModelRaises
    \/ CurrentReturns
    \/ CurrentRaises
    \/ Collect
    \/ Finish
    \/ Return

Spec == Init /\ [][Next]_vars

\* ------------------------------------------------- callback.py: the hook
\* the variables of the output object, which the callback never touches
output == <<cls, state, requires_grad, grad_acc, grad_enabled, default_latitude_range,
            pc, op, req, coords, coords_shape, batch_size, compute_currents, k, coord,
            b_batch, cube, j_cube, dispatched, model_out, result, error>>

\* lines 261-264: a MetricsCallback with its two scale factors, before the
\* first validation epoch
InitMetrics ==
    /\ cls = "none"
    /\ state = SphericalCheckpoint
    /\ requires_grad = FALSE
    /\ grad_acc = FALSE
    /\ grad_enabled = TRUE
    /\ default_latitude_range = DeclaredDefaultLatitude
    /\ pc = "idle" /\ op = "none" /\ req = NoReq
    /\ coords = <<>> /\ coords_shape = <<>> /\ batch_size = DefaultBatch
    /\ compute_currents = FALSE /\ k = 0 /\ coord = <<>> /\ b_batch = <<>>
    /\ cube = <<>> /\ j_cube = <<>> /\ dispatched = <<>>
    /\ model_out = NoOut /\ result = NoOut /\ error = "none"
    /\ callback \in Callbacks
    /\ validation_outputs = <<>> /\ hook = "none" /\ logged = <<>>

\* the validation epoch: the module leaves its outputs, or nothing, under
\* the callback's key, and the trainer calls the hook
ValidationEpoch ==
    /\ hook = "none"
    /\ validation_outputs' \in {<<>>} \cup {<<o>> : o \in ValidationOutputs}
    /\ hook' = "pending"
    /\ UNCHANGED <<output, callback, logged>>

\* lines 267-268: nothing under the key, the hook returns
OnValidationEpochEndReturn ==
    /\ hook = "pending"
    /\ validation_outputs = <<>>
    /\ hook' = "done"
    /\ UNCHANGED <<output, callback, validation_outputs, logged>>

\* lines 271-272: the samples in physical units
PhysicalB == Times(validation_outputs[1].b, callback.gauss_per_dB)

PhysicalJ == Over(Times(validation_outputs[1].j, callback.gauss_per_dB), callback.Mm_per_ds)

\* line 274
PhysicalDiv == Over(Times(validation_outputs[1].div, callback.gauss_per_dB), callback.Mm_per_ds)

\* lines 269-295: the four metrics, handed to wandb.log
on_validation_epoch_end ==
    /\ hook = "pending"
    /\ validation_outputs # <<>>
    /\ logged' = <<[divergence |-> div_loss(PhysicalDiv, PhysicalB),
                    force_free |-> ff_loss(PhysicalB, PhysicalJ),
                    sigma_J |-> sigma_J(PhysicalB, PhysicalJ),
                    theta_J |-> theta_J(PhysicalB, PhysicalJ)]>>
    /\ hook' = "done"
    /\ UNCHANGED <<output, callback, validation_outputs>>

NextMetrics ==
    \/ ValidationEpoch
    \/ OnValidationEpochEndReturn
    \/ on_validation_epoch_end

SpecMetrics == InitMetrics /\ [][NextMetrics]_vars

\* ------------------------------------------------------------------ claims
InLoad == pc \in {"loop", "model", "current", "collect"}

\* the points handed to the model so far, in dispatch order
Dispatched == Cat([i \in 1..Len(dispatched) |-> dispatched[i].coord])

TrueCells(cond) == {i \in 1..Len(cond) : cond[i]}

\* C1: batch-invariance of load_coords.  Chunk i is the run of at most
\* batch_size consecutive input points that starts where chunk i - 1 ended;
\* when the call returns, the chunks together are the input, each point once
\* and in order, and the output at flat position i is the converted model
\* value of input point i, which is what one single batch of all N points gives.
C1_BatchInvariance ==
    /\ \A i \in 1..Len(dispatched) :
          /\ Len(dispatched[i].coord) \in 1..batch_size
          /\ \A n \in 1..Len(dispatched[i].coord) :
                dispatched[i].coord[n] = coords[(i - 1) * batch_size + n]
    /\ pc = "returned" =>
          /\ Dispatched = coords
          /\ Len(model_out.B.data) = Len(coords)
          /\ \A i \in 1..Len(coords) : model_out.B.data[i] = ToPhysicalB(ModelB(coords[i]))
          /\ compute_currents =>
                /\ Len(model_out.J.data) = Len(coords)
                /\ \A i \in 1..Len(coords) :
                      model_out.J.data[i] = ToPhysicalJ(ModelJ(coords[i]))

\* a load_coords call with currents returned after a full and a ragged chunk
C1_Witness ==
    /\ pc = "returned" /\ op = "load_coords" /\ compute_currents
    /\ Len(coords) = 3 /\ batch_size = 2 /\ Len(dispatched) = 2
    /\ coords[1] # coords[2]

\* C2: shape preservation of load_coords.  For every input grid of shape
\* S + (3,), whatever its number of points and its batch size, a call whose
\* model evaluation does not fail returns B of shape S + (3,), and J of the same
\* shape when currents are requested.
C2_ShapePreservation ==
    /\ error # "RuntimeError"
    /\ pc = "returned" =>
          /\ model_out.B.shape = coords_shape
          /\ Product(model_out.B.shape) = 3 * Len(model_out.B.data)
          /\ compute_currents =>
                /\ model_out.J.shape = coords_shape
                /\ Product(model_out.J.shape) = 3 * Len(model_out.J.data)

\* the point with spherical coordinates s, wrap-normalized, lies in the
\* requested window (half-open, like the radius test)
InWindow(s, rr, lat, lon) ==
    /\ s[1] >= rr[1] * rr[1] /\ s[1] < rr[2] * rr[2]
    /\ s[2] % PI >= lat[1] /\ s[2] % PI < lat[2]
    /\ s[3] % (2 * PI) >= lon[1] /\ s[3] % (2 * PI) < lon[2]

\* C3: masked-region containment in load.  For every requested window, the
\* default full latitude and longitude ranges included, a point of the dense
\* lattice is in the coverage mask iff its radius, wrap-normalized latitude
\* and wrap-normalized longitude lie inside the requested window.
C3_MaskedRegionContainment ==
    op = "load" =>
       \A i \in 1..Len(req.condition) :
          req.condition[i] <=> InWindow(req.sph[i], req.rr, req.lat, req.lon)

\* C4: coverage-mask scatter in load.  The points sent to the evaluator are
\* as many as the mask has True cells; in the returned dense arrays every
\* masked-in cell holds the evaluated value of its own lattice point, and
\* every masked-out cell is zero in B, in J and in the rotated B_rtp.
C4_MaskScatter ==
    op = "load" /\ pc # "raised" =>
       /\ Len(coords) = Cardinality(TrueCells(req.condition))
       /\ pc = "returned" =>
             /\ Len(Dispatched) = Cardinality(TrueCells(req.condition))
             /\ \A i \in 1..Len(req.dense) :
                   IF req.condition[i]
                   THEN /\ result.B.data[i] = ToPhysicalB(ModelB(Normalize(req.dense[i])))
                        /\ result.J.data[i] = ToPhysicalJ(ModelJ(Normalize(req.dense[i])))
                        /\ result.B_rtp.data[i].v = result.B.data[i].v
                   ELSE /\ result.B.data[i].v = <<0, 0, 0>>
                        /\ result.J.data[i].v = <<0, 0, 0>>
                        /\ result.B_rtp.data[i].v = <<0, 0, 0>>

\* a masked evaluation returned with cells on both sides of the mask, the
\* first cell outside it, evaluated in more than one chunk
C4_Witness ==
    /\ op = "load" /\ pc = "returned" /\ Len(dispatched) >= 2
    /\ ~req.condition[1]
    /\ \E i \in 1..Len(req.condition) : req.condition[i]

\* C5: units at the public boundary.  Every B value a public operation
\* returns carries the field scale exactly once and no other factor, and every
\* J value carries field scale / length scale * c / (4 pi) exactly once; the
\* only other cells are the zero fill of a masked evaluation.
C5_PhysicalUnits ==
    pc = "returned" =>
       /\ "B" \in result.keys
       /\ \A i \in 1..Len(result.B.data) :
             \/ result.B.data[i].f = <<1, 0, 0, 0>> /\ result.B.data[i].u = <<1, 0, 0>>
             \/ /\ op = "load" /\ ~req.condition[i]
                /\ result.B.data[i].v = <<0, 0, 0>> /\ result.B.data[i].u = <<1, 0, 0>>
       /\ \A i \in 1..Len(result.B_rtp.data) :
             \/ result.B_rtp.data[i].f = <<1, 0, 0, 0>>
             \/ ~req.condition[i] /\ result.B_rtp.data[i].v = <<0, 0, 0>>
       /\ \A i \in 1..Len(result.J.data) :
             \/ result.J.data[i].f = <<1, -1, 1, -1>>
             \/ op = "load" /\ ~req.condition[i] /\ result.J.data[i].v = <<0, 0, 0>>

\* a cube returned with its field and its current density
C5_Witness ==
    /\ pc = "returned" /\ op = "load_cube"
    /\ Len(result.B.data) >= 2 /\ Len(result.J.data) >= 2

\* C6: gradient-mode selection.  Every chunk of a request is evaluated with
\* gradient tracking on iff compute_currents was requested or the model is
\* flagged as requiring input gradients: one mode for the whole request.
C6_GradientMode ==
    /\ InLoad => grad_enabled = (compute_currents \/ requires_grad)
    /\ \A i \in 1..Len(dispatched) :
          dispatched[i].tracked = (compute_currents \/ requires_grad)

\* two chunks evaluated in no-gradient mode
C6_Witness ==
    /\ Len(dispatched) >= 2 /\ ~compute_currents /\ ~requires_grad
    /\ ~dispatched[1].tracked /\ ~dispatched[2].tracked

\* C7: failure propagation.  A chunk whose model evaluation or current
\* computation raised is the last chunk dispatched and was dispatched once;
\* its exception is the one the caller gets, and there is no B and no J.
C7_FailurePropagation ==
    /\ \A i \in 1..Len(dispatched) :
          /\ dispatched[i].k = i - 1
          /\ dispatched[i].exc # "none" =>
                /\ i = Len(dispatched)
                /\ pc = "raised" /\ error = dispatched[i].exc
    /\ pc = "raised" => model_out = NoOut /\ result = NoOut

\* the model raised on the second chunk of a request that had a third
C7_Witness ==
    /\ pc = "raised" /\ error = "ModelError"
    /\ Len(dispatched) = 2 /\ NumChunks(Len(coords), batch_size) >= 3
    /\ Len(cube) = 1

\* C8: gradient-accumulator reset ordering.  When the model is invoked on
\* chunk k, the outputs of chunks 0..k-1 have been collected, no other chunk
\* is in flight, and the accumulators have been cleared since chunk k - 1.
C8_ZeroGradOrdering ==
    /\ pc = "model" => ~grad_acc /\ Len(cube) = k /\ Len(dispatched) = k
    /\ \A i \in 1..Len(dispatched) : dispatched[i].acc_clean /\ dispatched[i].k = i - 1

\* chunk k - 1 left gradient state behind and chunk k is about to start
C8_Witness ==
    /\ pc = "loop" /\ k >= 1 /\ k < NumChunks(Len(coords), batch_size) /\ grad_acc

\* C9: lattice sample count of the cube and masked-region samplers.  Every
\* axis with range [lo, hi] and resolution p has round((hi - lo) * p) samples,
\* and an axis with hi = lo has exactly one.
C9_LatticeSampleCount ==
    \A a \in 1..Len(req.axes) :
       req.axes[a].n = IF req.axes[a].hi = req.axes[a].lo THEN 1
                       ELSE RoundSamples(req.axes[a].lo, req.axes[a].hi, req.axes[a].p2)

\* C10: the half-pi offset of load_spherical is applied exactly once.  Every
\* call that gets to build its lattice builds it over [lat_min + pi/2,
\* lat_max + pi/2], for the range [lat_min, lat_max] passed or declared as
\* default, and the range object holds after the call what it held before.
C10_HalfPiOffsetOnce ==
    op = "load_spherical" /\ error # "AttributeError" =>
       LET declared == IF req.lat_arg = "default" THEN DeclaredDefaultLatitude
                       ELSE req.lat_before
       IN  /\ req.lat = <<declared[1] + PI \div 2, declared[2] + PI \div 2>>
           /\ req.lat_after = req.lat_before
           /\ default_latitude_range = DeclaredDefaultLatitude

\* the hook has logged the metrics of at least one sample, and the current
\* density of every sample is zero
ZeroCurrent ==
    /\ hook = "done" /\ logged # <<>>
    /\ PhysicalJ # <<>>
    /\ \A i \in 1..Len(PhysicalJ) : PhysicalJ[i].n = <<0, 0, 0>>

\* C11: force-free metric boundary.  When the current density of every
\* sample is zero, the logged force-free score and the logged misalignment
\* angle theta_J are both zero, and no intermediate value of the computation
\* is undefined (nan, the outcome of 0/0).
C11_ForceFreeBoundary ==
    ZeroCurrent =>
        /\ logged[1].force_free = "zero"
        /\ logged[1].theta_J = "zero"
        /\ "nan" \notin Intermediates(PhysicalB, PhysicalJ)

SphericalQueries == {"load_spherical", "load", "load_spherical_coords"}

\* C12: domain-type precondition.  On a loaded state whose domain type is
\* not 'spherical', the construction of a SphericalOutput ends in an
\* AssertionError and leaves no object; hence no SphericalOutput exists on
\* such a state, none of load_spherical, load and load_spherical_coords is
\* ever in progress on it, and every model evaluation on it belongs to an
\* output object of another class.
C12_DomainTypePrecondition ==
    state.type # "spherical" =>
        /\ op = "SphericalOutput.__init__" =>
               pc = "raised" /\ error = "AssertionError" /\ cls = "none"
        /\ cls # "SphericalOutput"
        /\ op \notin SphericalQueries
        /\ (pc \in {"model", "current"} \/ dispatched # <<>>) => cls = "CartesianOutput"

\* a SphericalOutput was constructed on a cartesian state and the
\* AssertionError reached the caller before any model evaluation
C12_Witness ==
    /\ state.type = "cartesian"
    /\ op = "SphericalOutput.__init__"
    /\ pc = "raised" /\ error = "AssertionError"
    /\ cls = "none" /\ dispatched = <<>>

====
